---- MODULE Spec2Model ----
(***************************************************************************)
(* Model of the routing-and-dispatch pipeline of Agentic-RAG-System:       *)
(* AIPipeline (src/pipeline/graph.py), RouterAgent (src/agents/router.py), *)
(* WeatherAgent (src/agents/weather_agent.py), WeatherService              *)
(* (src/services/weather.py), RAGAgent (src/agents/rag_agent.py) and       *)
(* VectorStoreService (src/services/vector_store.py).                      *)
(*                                                                         *)
(* Text is a sequence of tokens (words and punctuation marks); a Python    *)
(* substring test `phrase in text` is a contiguous-subsequence test on     *)
(* tokens and str.lower() maps every token to its lower-case form.         *)
(***************************************************************************)
EXTENDS Integers, Sequences, FiniteSets, TLC

(***************************************************************************)
(* Bounds of the model                                                     *)
(***************************************************************************)
\* longest extracted entity, in tokens
MaxEntityLen == 2
\* chunks a loaded PDF file is split into
ChunksPerFile == 2

(***************************************************************************)
(* Text helpers                                                            *)
(***************************************************************************)
\* str.lower() on one token
LowerTok(t) ==
    CASE t = "Error" -> "error"
      [] t = "Couldn't" -> "couldn't"
      [] t = "Find" -> "find"
      [] t = "Sorry" -> "sorry"
      [] t = "I" -> "i"
      [] t = "Paris" -> "paris"
      [] t = "City" -> "city"
      [] t = "Please" -> "please"
      [] t = "It" -> "it"
      [] t = "No" -> "no"
      [] t = "Expecting" -> "expecting"
      [] t = "Server" -> "server"
      [] t = "Clear" -> "clear"
      [] t = "Sky" -> "sky"
      [] OTHER -> t

\* str.lower()
Lower(text) == [i \in 1..Len(text) |-> LowerTok(text[i])]

\* `phrase in text`
Contains(text, phrase) ==
    \E i \in 1..(Len(text) - Len(phrase) + 1) :
        SubSeq(text, i, i + Len(phrase) - 1) = phrase

\* str.title() on one token
TitleTok(t) ==
    CASE t = "clear" -> "Clear"
      [] t = "sky" -> "Sky"
      [] t = "light" -> "Light"
      [] t = "rain" -> "Rain"
      [] OTHER -> t

\* str.title()
Title(text) == [i \in 1..Len(text) |-> TitleTok(text[i])]

IsSpace(t) == t = " "

RECURSIVE LStrip(_)
LStrip(s) == IF s # <<>> /\ IsSpace(Head(s)) THEN LStrip(Tail(s)) ELSE s

RECURSIVE RStrip(_)
RStrip(s) ==
    IF s # <<>> /\ IsSpace(s[Len(s)]) THEN RStrip(SubSeq(s, 1, Len(s) - 1)) ELSE s

\* str.strip()
Strip(s) == RStrip(LStrip(s))

\* sequences over S of length at most n
SeqsUpTo(S, n) == UNION {[1..m -> S] : m \in 0..n}

\* dict.get(key, default)
Get(d, key, default) == IF key \in DOMAIN d THEN d[key] ELSE default

\* merge that resets every field the update does not name
MergeErasing(s, upd) ==
    [f \in (DOMAIN s) \cup (DOMAIN upd) |->
        IF f \in DOMAIN upd THEN upd[f]
        ELSE IF f = "success" THEN FALSE
        ELSE IF f \in {"query_type", "agent_used"} THEN ""
        ELSE <<>>]

\* merge of a node's partial update into the graph state (last value wins)
Merge(s, upd) ==
    [f \in (DOMAIN s) \cup (DOMAIN upd) |-> IF f \in DOMAIN upd THEN upd[f] ELSE s[f]]

(***************************************************************************)
(* Inputs                                                                  *)
(***************************************************************************)
Queries == { <<"weather", "in", "Paris", "?">>, <<"summarize", "the", "document">> }

EntityTokens == {" ", "Paris"}
Entities == SeqsUpTo(EntityTokens, MaxEntityLen)

\* Literal["weather", "pdf", "unknown"] of RouterDecision.query_type
QueryTypeLiteral == {"weather", "pdf", "unknown"}
\* tags a model (or a test double of the router) can produce
RawTags == QueryTypeLiteral \cup {"something_else"}

Reasonings == { <<"because">> }

PipelineFields ==
    {"query", "query_type", "extracted_entity", "routing_reasoning",
     "response", "sources", "success", "agent_used"}

(***************************************************************************)
(* Results of calls: a value or a raised exception                         *)
(***************************************************************************)
NoVal == <<>>
NoExc == [type |-> "none", msg |-> <<>>]
Ok(v) == [raised |-> FALSE, val |-> v, exc |-> NoExc]
Raise(t, m) == [raised |-> TRUE, val |-> NoVal, exc |-> [type |-> t, msg |-> m]]

\* exception classes that `except ValueError` catches (json.JSONDecodeError
\* and pydantic's ValidationError derive from ValueError)
IsValueError(type) == type \in {"ValueError", "JSONDecodeError", "ValidationError"}

\* one recorded call to a collaborator
Call(op, arg, res) ==
    [op |-> op, arg |-> arg,
     out |-> IF res.raised THEN res.exc.type ELSE "ok",
     val |-> res.val]

(***************************************************************************)
(* RouterAgent (src/agents/router.py)                                      *)
(***************************************************************************)
\* what the structured-output model call can answer with: a tag, a rationale
\* and optionally an entity
ModelOutputs ==
    {[query_type |-> t, reasoning |-> r, extracted_entity |-> e] :
        t \in RawTags, r \in Reasonings, e \in Entities}
    \cup {[query_type |-> t, reasoning |-> r] : t \in RawTags, r \in Reasonings}

\* RouterDecision whose extracted_entity defaults to a placeholder word
RouterDecisionPlaceholderEntity(fields) ==
    IF fields.query_type \notin QueryTypeLiteral
    THEN Raise("ValidationError", <<"query_type", "invalid">>)
    ELSE Ok([query_type |-> fields.query_type,
             reasoning |-> fields.reasoning,
             extracted_entity |-> Get(fields, "extracted_entity", <<"none">>)])

\* RouterDecision(**fields): query_type is validated against the Literal,
\* extracted_entity defaults to ""
RouterDecision(fields) ==
    IF fields.query_type \notin QueryTypeLiteral
    THEN Raise("ValidationError", <<"query_type", "invalid">>)
    ELSE Ok([query_type |-> fields.query_type,
             reasoning |-> fields.reasoning,
             extracted_entity |-> Get(fields, "extracted_entity", <<>>)])

\* the inference call produced no output (it failed)
NoOutput == [failed |-> TRUE]

\* outcomes of the classifier's inference call, each with the raw output it
\* came from: the service fails, or it answers and the answer is parsed
\* into a RouterDecision
ChainOutcomes ==
    {[raw |-> NoOutput, res |-> Raise("GoogleAPIError", <<"service", "unavailable">>)]}
    \cup {[raw |-> o, res |-> RouterDecision(o)] : o \in ModelOutputs}

\* decisions a stand-in router returns (tests replace pipeline._router by a
\* Mock whose route() returns a prepared object; nothing validates the tag)
DoubleOutcomes ==
    {[raw |-> d, res |-> Ok(d)] :
        d \in {[query_type |-> t, reasoning |-> r, extracted_entity |-> e] :
                 t \in RawTags, r \in Reasonings, e \in Entities}}

\* route answering a failed inference call with an "unknown" decision
RouteFallsBack(impl) ==
    {IF t.res.raised /\ t.raw = NoOutput
     THEN [raw |-> t.raw,
           res |-> Ok([query_type |-> "unknown", reasoning |-> <<>>,
                       extracted_entity |-> <<>>])]
     ELSE t :
        t \in IF impl = "RouterAgent" THEN ChainOutcomes ELSE DoubleOutcomes}

\* RouterAgent.route: returns whatever the chain returns, propagates what
\* it raises
Route(impl) == IF impl = "RouterAgent" THEN ChainOutcomes ELSE DoubleOutcomes

\* the recorded call of route, with the raw output of the model
RouteCall(query, t) ==
    [op |-> "route", arg |-> query,
     out |-> IF t.res.raised THEN t.res.exc.type ELSE "ok",
     val |-> t.res.val, raw |-> t.raw]

(***************************************************************************)
(* State of the program                                                    *)
(***************************************************************************)
VARIABLES
    router,     \* what self._router is: the RouterAgent or a stand-in
    index,      \* the vector store: does the collection exist, its passages
    pc,         \* position of the current call: Idle, Start, Classified,
                \* Handled, Done, Raised
    state,      \* the PipelineState dict of the current call
    branch,     \* last value returned by _route_query
    nodes,      \* graph nodes executed by the current run, in order
    calls,      \* collaborator calls made by the current run, in order
    result,     \* the dict the selected agent's process() returned
    returned,   \* what invoke returned to its caller
    error,      \* the exception invoke raised to its caller
    mode,       \* how the graph is run by the current call: invoke or stream
    yielded,    \* what stream has yielded to its caller so far, in order
    runs,       \* the calls of invoke in progress at the same time on one
                \* pipeline, each with its own position, state dict and calls
    storeCalls, \* the calls of create_collection and add_documents in
                \* progress on the vector store, each with its position
    removed,    \* has a call deleted the collection (delete_collection or
                \* create_collection(recreate=True)) so far
    upload      \* load_pdf_from_bytes: the temporary files on disk, how many
                \* were created, and the last call with its outcome

(***************************************************************************)
(* WeatherService (src/services/weather.py)                                *)
(***************************************************************************)
\* what the HTTP GET can do: fail in transport, or deliver a response
HttpReplies ==
    {[sent |-> FALSE, status |-> 0, body |-> "none"]}
    \cup {[sent |-> TRUE, status |-> st, body |-> "none"] : st \in {401, 404, 500}}
    \cup {[sent |-> TRUE, status |-> 200, body |-> b] :
            b \in {"weather_json", "incomplete_json", "not_json"}}

\* WeatherData built from a complete JSON body
WeatherDataOf(body) ==
    [city |-> <<"Paris">>, country |-> "FR", temperature |-> "20.0",
     feels_like |-> "19.0", humidity |-> "60",
     description |-> <<"clear", "sky">>, wind_speed |-> "3.0", icon |-> "01d"]

\* get_current_weather calling raise_for_status before looking at the status
GetCurrentWeatherStatusFirst(city, reply) ==
    IF ~reply.sent THEN Raise("ConnectError", <<"connection", "failed">>)
    ELSE IF reply.status # 200
    THEN Raise("HTTPStatusError", <<"Server", "error", "for", "url">>)
    ELSE IF reply.body = "not_json"
    THEN Raise("JSONDecodeError", <<"Expecting", "value">>)
    ELSE IF reply.body = "incomplete_json"
    THEN Raise("KeyError", <<"'", "main", "'">>)
    ELSE Ok(WeatherDataOf(reply.body))

\* WeatherService.get_current_weather
GetCurrentWeather(city, reply) ==
    IF ~reply.sent THEN Raise("ConnectError", <<"connection", "failed">>)
    ELSE IF reply.status = 404
    THEN Raise("ValueError", <<"City", "'">> \o city \o <<"'", "not", "found">>)
    ELSE IF reply.status # 200
    THEN Raise("HTTPStatusError", <<"Server", "error", "for", "url">>)
    ELSE IF reply.body = "not_json"
    THEN Raise("JSONDecodeError", <<"Expecting", "value">>)
    ELSE IF reply.body = "incomplete_json"
    THEN Raise("KeyError", <<"'", "main", "'">>)
    ELSE Ok(WeatherDataOf(reply.body))

\* the recorded call of get_current_weather, with the HTTP reply behind its
\* outcome and the message of the exception it raised
LookupCall(city, reply, res) ==
    [op |-> "get_current_weather", arg |-> city,
     out |-> IF res.raised THEN res.exc.type ELSE "ok",
     val |-> res.val, reply |-> reply, msg |-> res.exc.msg]

\* WeatherData objects a caller can hand to format_weather_report
WeatherSnapshots ==
    {[WeatherDataOf("weather_json") EXCEPT !.city = c, !.description = d] :
        c \in { <<"Paris">>, <<"New", "York">> },
        d \in { <<"clear", "sky">>, <<"light", "rain">> }}

\* a formatter that keeps the report it built first and returns it again
FormatWeatherReportCached(weather) ==
    LET earlier == SelectSeq(calls, LAMBDA c : c.op = "format_weather_report")
    IN  IF earlier # <<>> THEN earlier[1].val
        ELSE <<"Current", "Weather", "in">> \o weather.city
             \o <<",", weather.country, ":",
                  "Temperature", ":", weather.temperature, "C",
                  "(", "feels", "like", weather.feels_like, "C", ")",
                  "Humidity", ":", weather.humidity, "%",
                  "Conditions", ":">>
             \o Title(weather.description)
             \o <<"Wind", "Speed", ":", weather.wind_speed, "m/s">>

\* WeatherService.format_weather_report
FormatWeatherReport(weather) ==
    <<"Current", "Weather", "in">> \o weather.city
    \o <<",", weather.country, ":",
         "Temperature", ":", weather.temperature, "C",
         "(", "feels", "like", weather.feels_like, "C", ")",
         "Humidity", ":", weather.humidity, "%",
         "Conditions", ":">>
    \o Title(weather.description)
    \o <<"Wind", "Speed", ":", weather.wind_speed, "m/s">>

(***************************************************************************)
(* WeatherAgent (src/agents/weather_agent.py)                              *)
(***************************************************************************)
\* texts the answer-generating model call can produce
WeatherAnswers ==
    { <<"It", "is", "sunny", "in", "Paris">>,
      <<"Sorry", ",", "I", "Couldn't", "Find", "any", "rain", "in", "Paris">>,
      <<"No", "measurement", "Error", "today", ":", "20.0", "C">> }

LlmFailure == Raise("GoogleAPIError", <<"service", "unavailable">>)

WeatherLlmOutcomes == {Ok(t) : t \in WeatherAnswers} \cup {LlmFailure}

\* the `except ValueError` branch of answer_weather_query
NotFoundMessage(city, e) ==
    <<"I", "couldn't", "find", "weather", "data", "for", "'">> \o city
    \o <<"'", ".", "Please", "check", "the", "city", "name", "and", "try",
         "again", ".", "Error", ":">> \o e.msg

\* an apology that does not use the word the success heuristic looks for
ErrorMessageOtherWording(e) ==
    <<"Sorry", ",", "something", "went", "wrong", "while", "fetching",
      "weather", "data", ":">> \o e.msg

\* the `except Exception` branch of answer_weather_query
ErrorMessage(e) ==
    <<"Sorry", ",", "I", "encountered", "an", "error", "while", "fetching",
      "weather", "data", ":">> \o e.msg

\* the except clauses with `except Exception` first
HandleWeatherExceptionSwapped(city, e) == ErrorMessage(e)

\* the two except clauses, in order
HandleWeatherException(city, e) ==
    IF IsValueError(e.type) THEN NotFoundMessage(city, e) ELSE ErrorMessage(e)

\* answer_weather_query with the inference call after the try block
AnswerWeatherQueryChainUnguarded(question, city, reply, llm) ==
    LET weather == GetCurrentWeather(city, reply)
        lookup == LookupCall(city, reply, weather)
    IN  IF weather.raised
        THEN [raised |-> FALSE, exc |-> NoExc,
              ret |-> HandleWeatherException(city, weather.exc),
              calls |-> <<lookup>>]
        ELSE LET weather_report == FormatWeatherReport(weather.val)
                 infer == Call("weather_llm",
                               [weather_data |-> weather_report, question |-> question],
                               llm)
             IN  [raised |-> llm.raised, exc |-> llm.exc,
                  ret |-> llm.val,
                  calls |-> <<lookup, infer>>]

\* answer_weather_query asking the model before it looks the weather up
AnswerWeatherQueryInferFirst(question, city, reply, llm) ==
    LET weather == GetCurrentWeather(city, reply)
        lookup == LookupCall(city, reply, weather)
        infer == Call("weather_llm",
                      [weather_data |-> <<>>, question |-> question], llm)
    IN  [raised |-> FALSE, exc |-> NoExc,
         ret |-> IF llm.raised THEN HandleWeatherException(city, llm.exc)
                 ELSE IF weather.raised THEN HandleWeatherException(city, weather.exc)
                 ELSE llm.val,
         calls |-> <<infer, lookup>>]

\* WeatherAgent.answer_weather_query: the text it returns and the calls it makes
AnswerWeatherQuery(question, city, reply, llm) ==
    LET weather == GetCurrentWeather(city, reply)
        lookup == LookupCall(city, reply, weather)
    IN  IF weather.raised
        THEN [raised |-> FALSE, exc |-> NoExc,
              ret |-> HandleWeatherException(city, weather.exc),
              calls |-> <<lookup>>]
        ELSE LET weather_report == FormatWeatherReport(weather.val)
                 infer == Call("weather_llm",
                               [weather_data |-> weather_report, question |-> question],
                               llm)
             IN  [raised |-> FALSE, exc |-> NoExc,
                  ret |-> IF llm.raised
                          THEN HandleWeatherException(city, llm.exc)
                          ELSE llm.val,
                  calls |-> <<lookup, infer>>]

NeedCityMessage ==
    <<"I", "need", "a", "city", "name", "to", "fetch", "weather", "information",
      ".", "Please", "specify", "a", "location">>

\* the success heuristic of WeatherAgent.process
WeatherSuccess(response) ==
    /\ ~Contains(Lower(response), <<"couldn't", "find">>)
    /\ ~Contains(Lower(response), <<"error">>)

\* process testing the entity without strip()
WeatherProcessNoStrip(query, extracted_city, reply, llm) ==
    LET city == extracted_city
    IN  IF city = <<>>
        THEN [raised |-> FALSE, exc |-> NoExc,
              ret |-> [response |-> NeedCityMessage, success |-> FALSE],
              calls |-> <<>>]
        ELSE LET a == AnswerWeatherQuery(query, city, reply, llm)
             IN  IF a.raised
                 THEN [raised |-> TRUE, exc |-> a.exc, ret |-> NoVal, calls |-> a.calls]
                 ELSE [raised |-> FALSE, exc |-> NoExc,
                       ret |-> [response |-> a.ret, success |-> WeatherSuccess(a.ret)],
                       calls |-> a.calls]

\* WeatherAgent.process
WeatherProcess(query, extracted_city, reply, llm) ==
    LET city == Strip(extracted_city)
    IN  IF city = <<>>
        THEN [raised |-> FALSE, exc |-> NoExc,
              ret |-> [response |-> NeedCityMessage, success |-> FALSE],
              calls |-> <<>>]
        ELSE LET a == AnswerWeatherQuery(query, city, reply, llm)
             IN  IF a.raised
                 THEN [raised |-> TRUE, exc |-> a.exc, ret |-> NoVal, calls |-> a.calls]
                 ELSE [raised |-> FALSE, exc |-> NoExc,
                       ret |-> [response |-> a.ret, success |-> WeatherSuccess(a.ret)],
                       calls |-> a.calls]

(***************************************************************************)
(* VectorStoreService (src/services/vector_store.py)                       *)
(***************************************************************************)
Files == {"a.pdf", "b.pdf"}

\* passages are numbered; 1..ChunksPerFile are the chunks of a.pdf, the
\* next ChunksPerFile those of b.pdf, the last one is a Document indexed
\* without source_file metadata
NumPassages == 2 * ChunksPerFile + 1
PassageIds == 1..NumPassages

\* doc.metadata of a passage
Metadata(id) ==
    IF id <= ChunksPerFile
    THEN [source_file |-> "a.pdf", page |-> "1"]
    ELSE IF id <= 2 * ChunksPerFile
    THEN [source_file |-> "b.pdf", page |-> "2"]
    ELSE [page |-> "1"]

\* chunks that load_pdf_from_bytes returns for an uploaded file
ChunksOf(file) ==
    IF file = "a.pdf" THEN 1..ChunksPerFile
    ELSE (ChunksPerFile + 1)..(2 * ChunksPerFile)

\* the document lists handed to index_documents
DocumentBatches == {ChunksOf(f) : f \in Files} \cup {{NumPassages}}

RECURSIVE SortedSeq(_)
\* a set of passages as a list (by passage number)
SortedSeq(S) ==
    IF S = {} THEN <<>>
    ELSE LET m == CHOOSE x \in S : \A y \in S : x <= y
         IN  <<m>> \o SortedSeq(S \ {m})

Min(a, b) == IF a <= b THEN a ELSE b

\* VectorStoreService.create_collection
CreateCollectionEffect(ix, recreate) ==
    IF ix.exists
    THEN IF recreate THEN [exists |-> TRUE, points |-> {}] ELSE ix
    ELSE [exists |-> TRUE, points |-> {}]

\* VectorStoreService.add_documents
AddDocumentsEffect(ix, documents) ==
    LET created == CreateCollectionEffect(ix, FALSE)
    IN  [created EXCEPT !.points = @ \cup documents]

\* VectorStoreService.similarity_search: the store is unreachable, the
\* collection is missing, or the k nearest passages are returned (which
\* ones are nearest is the embedding's choice)
SimilaritySearch(ix, query, k) ==
    {Raise("ResponseHandlingException", <<"connection", "failed">>)}
    \cup (IF ~ix.exists
          THEN {Raise("CollectionNotFound", <<"collection", "not", "found">>)}
          ELSE {Ok(SortedSeq(D)) :
                  D \in {X \in SUBSET ix.points :
                           Cardinality(X) = Min(k, Cardinality(ix.points))}})

(***************************************************************************)
(* RAGAgent (src/agents/rag_agent.py)                                      *)
(***************************************************************************)
\* default of the k parameter of retrieve_context and answer_question
DefaultK == 4

RagAnswers ==
    { <<"The", "document", "says", "X">>,
      <<"The", "context", "is", "insufficient">> }

RagLlmOutcomes == {Ok(t) : t \in RagAnswers} \cup {LlmFailure}

NoDocumentsMessage ==
    <<"I", "don't", "have", "any", "documents", "indexed", "yet", ".",
      "Please", "upload", "a", "PDF", "first", ".">>

\* RAGAgent.retrieve_context
RetrieveContext(ix, query, k) == SimilaritySearch(ix, query, k)

RECURSIVE FormatContext(_)
\* RAGAgent._format_context
FormatContext(documents) ==
    IF documents = <<>> THEN <<"No", "relevant", "documents", "found", ".">>
    ELSE LET doc == Metadata(Head(documents))
             part == <<"[", "Source", ":", Get(doc, "source_file", "Unknown"), ",",
                       "Page", Get(doc, "page", "?"), "]", "content">>
         IN  IF Len(documents) = 1 THEN part
             ELSE part \o <<"---">> \o FormatContext(Tail(documents))

\* [doc.metadata.get("source_file", "Unknown") for doc in documents]
SourceNames(documents) ==
    [i \in 1..Len(documents) |-> Get(Metadata(documents[i]), "source_file", "Unknown")]

Range(f) == {f[i] : i \in DOMAIN f}

\* the names without set(): one entry per passage
ListOfSetKeepAll(names) == {names}

\* list(set(names)): the distinct names, in any order
ListOfSet(names) ==
    LET S == Range(names)
    IN  {l \in [1..Cardinality(S) -> S] : Range(l) = S}

\* answer_question without the early return for an empty retrieval
AnswerQuestionAlwaysInfers(question, k, search, llm) ==
    LET retrieve == Call("similarity_search", [query |-> question, k |-> k], search)
    IN  IF search.raised
        THEN {[raised |-> TRUE, exc |-> search.exc, ret |-> NoVal,
               calls |-> <<retrieve>>]}
        ELSE LET documents == search.val
                 context == FormatContext(documents)
                 infer == Call("rag_llm",
                               [context |-> context, question |-> question],
                               llm)
             IN  IF llm.raised
                 THEN {[raised |-> TRUE, exc |-> llm.exc, ret |-> NoVal,
                        calls |-> <<retrieve, infer>>]}
                 ELSE {[raised |-> FALSE, exc |-> NoExc,
                        ret |-> [response |-> IF documents = <<>>
                                              THEN NoDocumentsMessage ELSE llm.val,
                                 sources |-> sources,
                                 context_used |-> context],
                        calls |-> <<retrieve, infer>>] :
                          sources \in ListOfSet(SourceNames(documents))}

\* RAGAgent.answer_question: its possible outcomes for one retrieval
\* outcome and one inference outcome
AnswerQuestion(question, k, search, llm) ==
    LET retrieve == Call("similarity_search", [query |-> question, k |-> k], search)
    IN  IF search.raised
        THEN {[raised |-> TRUE, exc |-> search.exc, ret |-> NoVal,
               calls |-> <<retrieve>>]}
        ELSE LET documents == search.val IN
             IF documents = <<>>
             THEN {[raised |-> FALSE, exc |-> NoExc,
                    ret |-> [response |-> NoDocumentsMessage, sources |-> <<>>,
                             context_used |-> <<>>],
                    calls |-> <<retrieve>>]}
             ELSE LET context == FormatContext(documents)
                      infer == Call("rag_llm",
                                    [context |-> context, question |-> question],
                                    llm)
                  IN  IF llm.raised
                      THEN {[raised |-> TRUE, exc |-> llm.exc, ret |-> NoVal,
                             calls |-> <<retrieve, infer>>]}
                      ELSE {[raised |-> FALSE, exc |-> NoExc,
                             ret |-> [response |-> llm.val, sources |-> sources,
                                      context_used |-> context],
                             calls |-> <<retrieve, infer>>] :
                               sources \in ListOfSet(SourceNames(documents))}

\* process deriving success from the response instead of the sources
RagProcessSuccessFromResponse(query, search, llm) ==
    {IF a.raised THEN a
     ELSE [a EXCEPT !.ret = [response |-> a.ret.response,
                             sources |-> a.ret.sources,
                             success |-> Len(a.ret.response) > 0]] :
        a \in AnswerQuestion(query, DefaultK, search, llm)}

\* RAGAgent.process
RagProcess(query, search, llm) ==
    {IF a.raised THEN a
     ELSE [a EXCEPT !.ret = [response |-> a.ret.response,
                             sources |-> a.ret.sources,
                             success |-> Len(a.ret.sources) > 0]] :
        a \in AnswerQuestion(query, DefaultK, search, llm)}

(***************************************************************************)
(* AIPipeline (src/pipeline/graph.py)                                      *)
(***************************************************************************)
vars == <<router, index, pc, state, branch, nodes, calls, result, returned, error,
         mode, yielded, runs, storeCalls, removed, upload>>

NoState == [query |-> <<>>]
NoBranch == "none"
NoReturn == [query |-> <<>>]
NoResult == [response |-> <<>>]

\* a stream that yields nothing for the router node
YieldSkipsRouter(m, ys, node, update) ==
    IF m = "stream" /\ node # "router"
    THEN Append(ys, [node |-> node, update |-> update])
    ELSE ys

\* what the graph's stream yields after a node has run: the node's update
\* under the node's name; invoke yields nothing
Yield(m, ys, node, update) ==
    IF m = "stream" THEN Append(ys, [node |-> node, update |-> update]) ELSE ys

\* number of calls of invoke that overlap on one pipeline
NumRuns == 2
RunIds == 1..NumRuns

\* callers of the vector store whose calls can overlap
NumStoreCallers == 2
StoreCallerIds == 1..NumStoreCallers

\* a caller of the vector store with no call in progress
IdleStoreCall ==
    [op |-> "none", pc |-> "Idle", documents |-> {}, recreate |-> FALSE, error |-> NoExc]

\* no call of load_pdf_from_bytes yet
NoUpload ==
    [disk |-> {}, created |-> 0,
     last |-> [filename |-> "none", tmp_path |-> 0, raised |-> FALSE, exc |-> NoExc,
               chunks |-> {}]]

\* a call of invoke that has not started
IdleRun ==
    [pc |-> "Idle", state |-> NoState, calls |-> <<>>, result |-> NoResult,
     returned |-> NoReturn, error |-> NoExc]

\* a pipeline that keeps one state dict and hands it to every call
InitialStateShared(query) ==
    IF \E r \in RunIds : runs[r].pc = "Done"
    THEN [(CHOOSE st \in {runs[r].state : r \in {x \in RunIds : runs[x].pc = "Done"}} : TRUE)
             EXCEPT !.query = query]
    ELSE [query |-> query, query_type |-> "", extracted_entity |-> <<>>,
          routing_reasoning |-> <<>>, response |-> <<>>, sources |-> <<>>,
          success |-> FALSE, agent_used |-> ""]

\* the dict built at the top of invoke
InitialState(query) ==
    [query |-> query, query_type |-> "", extracted_entity |-> <<>>,
     routing_reasoning |-> <<>>, response |-> <<>>, sources |-> <<>>,
     success |-> FALSE, agent_used |-> ""]

\* _route_query with the default branch sending every tag but "unknown"
\* to the document handler
RouteQueryOpenDefault(st) ==
    LET query_type == Get(st, "query_type", "unknown")
    IN  IF query_type = "weather" THEN "weather"
        ELSE IF query_type = "unknown" THEN "unknown"
        ELSE "pdf"

\* AIPipeline._route_query
RouteQuery(st) ==
    LET query_type == Get(st, "query_type", "unknown")
    IN  IF query_type = "weather" THEN "weather"
        ELSE IF query_type = "pdf" THEN "pdf"
        ELSE "unknown"

\* the path map given to add_conditional_edges in _build_graph
EdgeTarget(b) ==
    CASE b = "weather" -> "weather_agent"
      [] b = "pdf" -> "rag_agent"
      [] b = "unknown" -> "unknown_handler"

HelpText ==
    <<"I'm", "not", "sure", "how", "to", "handle", "that", "question", ".",
      "Weather", "queries", ":", "Ask", "about", "weather", "in", "any", "city",
      "Document", "questions", ":", "Ask", "about", "uploaded", "PDF", "content",
      "Please", "try", "rephrasing", "your", "question", "!">>

\* the update dict returned by _router_node
RouterUpdate(decision) ==
    [query_type |-> decision.query_type,
     extracted_entity |-> decision.extracted_entity,
     routing_reasoning |-> decision.reasoning]

\* _weather_node tagging the record with the node's name
WeatherUpdateNodeName(res) ==
    [response |-> res.response, success |-> res.success,
     sources |-> <<>>, agent_used |-> "weather_agent"]

\* the update dict returned by _weather_node
WeatherUpdate(res) ==
    [response |-> res.response, success |-> res.success,
     sources |-> <<>>, agent_used |-> "weather"]

\* _rag_node leaving the sources out of its update
RagUpdateNoSources(res) ==
    [response |-> res.response, success |-> res.success,
     sources |-> <<>>, agent_used |-> "rag"]

\* _rag_node forgetting the agent_used entry
RagUpdateNoAgent(res) ==
    [response |-> res.response, success |-> res.success,
     sources |-> Get(res, "sources", <<>>)]

\* the update dict returned by _rag_node
RagUpdate(res) ==
    [response |-> res.response, success |-> res.success,
     sources |-> Get(res, "sources", <<>>), agent_used |-> "rag"]

\* _unknown_node echoing the query instead of the help text
UnknownUpdateEcho ==
    [response |-> state.query, success |-> FALSE, sources |-> <<>>,
     agent_used |-> "unknown"]

\* the update dict returned by _unknown_node
UnknownUpdate ==
    [response |-> HelpText, success |-> FALSE, sources |-> <<>>,
     agent_used |-> "unknown"]

Init ==
    /\ router \in {"RouterAgent", "double"}
    /\ index = [exists |-> FALSE, points |-> {}]
    /\ pc = "Idle"
    /\ state = NoState
    /\ branch = NoBranch
    /\ nodes = <<>>
    /\ calls = <<>>
    /\ result = NoResult
    /\ returned = NoReturn
    /\ error = NoExc
    /\ mode = "invoke"
    /\ yielded = <<>>
    /\ runs = [r \in RunIds |-> IdleRun]
    /\ storeCalls = [c \in StoreCallerIds |-> IdleStoreCall]
    /\ removed = FALSE
    /\ upload = NoUpload

\* AIPipeline.invoke, up to the start of the graph
\* invoke starting every run on a recreated collection
InvokeRecreatesCollection(query) ==
    /\ pc \in {"Idle", "Done", "Raised", "Exhausted"}
    /\ pc' = "Start"
    /\ state' = InitialState(query)
    /\ branch' = NoBranch
    /\ nodes' = <<>>
    /\ calls' = <<>>
    /\ result' = NoResult
    /\ returned' = NoReturn
    /\ error' = NoExc
    /\ mode' = "invoke"
    /\ yielded' = <<>>
    /\ index' = CreateCollectionEffect(index, TRUE)
    /\ UNCHANGED <<upload, storeCalls, removed, runs, router>>

\* AIPipeline.invoke: builds the initial dict and starts the graph
Invoke(query) ==
    /\ pc \in {"Idle", "Done", "Raised", "Exhausted"}
    /\ pc' = "Start"
    /\ state' = InitialState(query)
    /\ branch' = NoBranch
    /\ nodes' = <<>>
    /\ calls' = <<>>
    /\ result' = NoResult
    /\ returned' = NoReturn
    /\ error' = NoExc
    /\ mode' = "invoke"
    /\ yielded' = <<>>
    /\ UNCHANGED <<upload, storeCalls, removed, runs, router, index>>

\* AIPipeline.stream: the same initial dict, given to self._graph.stream
Stream(query) ==
    /\ pc \in {"Idle", "Done", "Raised", "Exhausted"}
    /\ pc' = "Start"
    /\ state' = InitialState(query)
    /\ branch' = NoBranch
    /\ nodes' = <<>>
    /\ calls' = <<>>
    /\ result' = NoResult
    /\ returned' = NoReturn
    /\ error' = NoExc
    /\ mode' = "stream"
    /\ yielded' = <<>>
    /\ UNCHANGED <<upload, storeCalls, removed, runs, router, index>>

\* the router node and the conditional edge after it
RouterNode ==
    /\ pc = "Start"
    /\ \E t \in Route(router) :
        LET d == t.res IN
        /\ calls' = Append(calls, RouteCall(state.query, t))
        /\ nodes' = Append(nodes, "router")
        /\ IF d.raised
           THEN /\ pc' = "Raised"
                /\ error' = d.exc
                /\ UNCHANGED <<state, branch, yielded>>
           ELSE /\ pc' = "Classified"
                /\ state' = Merge(state, RouterUpdate(d.val))
                /\ branch' = RouteQuery(state')
                /\ error' = error
                /\ yielded' = Yield(mode, yielded, "router", RouterUpdate(d.val))
    /\ UNCHANGED <<upload, storeCalls, removed, runs, router, index, result, returned, mode>>

\* the weather_agent node
WeatherNode ==
    /\ pc = "Classified"
    /\ EdgeTarget(branch) = "weather_agent"
    /\ \E reply \in HttpReplies, llm \in WeatherLlmOutcomes :
        LET p == WeatherProcess(state.query,
                                Get(state, "extracted_entity", <<>>),
                                reply, llm)
        IN  /\ calls' = calls \o p.calls
            /\ IF p.raised
               THEN /\ pc' = "Raised"
                    /\ error' = p.exc
                    /\ UNCHANGED <<state, result, yielded>>
               ELSE /\ pc' = "Handled"
                    /\ result' = p.ret
                    /\ state' = Merge(state, WeatherUpdate(p.ret))
                    /\ error' = error
                    /\ yielded' = Yield(mode, yielded, "weather_agent", WeatherUpdate(p.ret))
    /\ nodes' = Append(nodes, "weather_agent")
    /\ UNCHANGED <<upload, storeCalls, removed, runs, router, index, branch, returned, mode>>

\* the rag_agent node
RagNode ==
    /\ pc = "Classified"
    /\ EdgeTarget(branch) = "rag_agent"
    /\ \E search \in RetrieveContext(index, state.query, DefaultK),
          llm \in RagLlmOutcomes :
        \E p \in RagProcess(state.query, search, llm) :
            /\ calls' = calls \o p.calls
            /\ IF p.raised
               THEN /\ pc' = "Raised"
                    /\ error' = p.exc
                    /\ UNCHANGED <<state, result, yielded>>
               ELSE /\ pc' = "Handled"
                    /\ result' = p.ret
                    /\ state' = Merge(state, RagUpdate(p.ret))
                    /\ error' = error
                    /\ yielded' = Yield(mode, yielded, "rag_agent", RagUpdate(p.ret))
    /\ nodes' = Append(nodes, "rag_agent")
    /\ UNCHANGED <<upload, storeCalls, removed, runs, router, index, branch, returned, mode>>

\* the unknown_handler node
UnknownNode ==
    /\ pc = "Classified"
    /\ EdgeTarget(branch) = "unknown_handler"
    /\ state' = Merge(state, UnknownUpdate)
    /\ yielded' = Yield(mode, yielded, "unknown_handler", UnknownUpdate)
    /\ nodes' = Append(nodes, "unknown_handler")
    /\ pc' = "Handled"
    /\ UNCHANGED <<upload, storeCalls, removed, runs, router, index, branch, calls, result, returned, error, mode>>

\* the edge to END: invoke returns the final state
Return ==
    /\ pc = "Handled"
    /\ mode = "invoke"
    /\ pc' = "Done"
    /\ returned' = state
    /\ UNCHANGED <<upload, storeCalls, removed, runs, router, index, state, branch, nodes, calls, result, error, mode, yielded>>

\* the edge to END under stream: the generator is exhausted, nothing is
\* returned
StreamEnd ==
    /\ pc = "Handled"
    /\ mode = "stream"
    /\ pc' = "Exhausted"
    /\ UNCHANGED <<upload, storeCalls, removed, runs, router, index, state, branch, nodes, calls, result, returned, error,
                   mode, yielded>>

\* the dicts _route_query is called with directly
PartialStates ==
    {[query |-> q] : q \in Queries}
    \cup {[query_type |-> t] : t \in RawTags \cup {""}}

\* a direct call of _route_query on a caller-built dict
CallRouteQuery(st) ==
    /\ pc \in {"Idle", "Done", "Raised", "Exhausted"}
    /\ pc' = "Idle"
    /\ state' = st
    /\ branch' = RouteQuery(st)
    /\ nodes' = <<>>
    /\ calls' = <<>>
    /\ result' = NoResult
    /\ returned' = NoReturn
    /\ error' = NoExc
    /\ mode' = "invoke"
    /\ yielded' = <<>>
    /\ UNCHANGED <<upload, storeCalls, removed, runs, router, index>>

\* a caller's direct call of WeatherService.get_current_weather, made while
\* the pipeline is idle
CallGetCurrentWeather(city, reply) ==
    /\ pc = "Idle"
    /\ pc' = "Idle"
    /\ LET weather == GetCurrentWeather(city, reply)
       IN  /\ calls' = <<LookupCall(city, reply, weather)>>
           /\ error' = weather.exc
    /\ state' = NoState
    /\ branch' = NoBranch
    /\ nodes' = <<>>
    /\ result' = NoResult
    /\ returned' = NoReturn
    /\ mode' = "invoke"
    /\ yielded' = <<>>
    /\ UNCHANGED <<upload, storeCalls, removed, runs, router, index>>

\* number of direct calls of format_weather_report that are followed
MaxFormatCalls == 2

\* a caller's direct call of WeatherService.format_weather_report, made while
\* the pipeline is idle; the calls accumulate in the log
CallFormatWeatherReport(weather) ==
    /\ pc = "Idle"
    /\ Len(SelectSeq(calls, LAMBDA c : c.op = "format_weather_report")) < MaxFormatCalls
    /\ calls' = Append(SelectSeq(calls, LAMBDA c : c.op = "format_weather_report"),
                       Call("format_weather_report", weather,
                            Ok(FormatWeatherReport(weather))))
    /\ UNCHANGED <<upload, storeCalls, removed, runs, router, index, pc, state, branch, nodes, result, returned, error,
                   mode, yielded>>

\* RAGAgent.index_documents (the application calls it between runs; calls
\* overlapping with runs are part of ConcSpec)
IndexDocuments(documents) ==
    /\ pc = "Idle"
    /\ index' = AddDocumentsEffect(index, documents)
    /\ UNCHANGED <<upload, storeCalls, removed, runs, router, pc, state, branch, nodes, calls, result, returned, error, mode, yielded>>

\* VectorStoreService.create_collection
CreateCollection(recreate) ==
    /\ pc = "Idle"
    /\ index' = CreateCollectionEffect(index, recreate)
    /\ UNCHANGED <<upload, storeCalls, removed, runs, router, pc, state, branch, nodes, calls, result, returned, error, mode, yielded>>

\* VectorStoreService.delete_collection
DeleteCollection ==
    /\ pc = "Idle"
    /\ index.exists
    /\ index' = [exists |-> FALSE, points |-> {}]
    /\ UNCHANGED <<upload, storeCalls, removed, runs, router, pc, state, branch, nodes, calls, result, returned, error, mode, yielded>>

Next ==
    \/ \E q \in Queries : Invoke(q)
    \/ \E q \in Queries : Stream(q)
    \/ RouterNode
    \/ WeatherNode
    \/ RagNode
    \/ UnknownNode
    \/ Return
    \/ StreamEnd
    \/ \E st \in PartialStates : CallRouteQuery(st)
    \/ \E city \in Entities, reply \in HttpReplies : CallGetCurrentWeather(city, reply)
    \/ \E weather \in WeatherSnapshots : CallFormatWeatherReport(weather)
    \/ \E docs \in DocumentBatches : IndexDocuments(docs)
    \/ \E recreate \in BOOLEAN : CreateCollection(recreate)
    \/ DeleteCollection

Spec == Init /\ [][Next]_vars

(***************************************************************************)
(* Overlapping calls of invoke on one pipeline                             *)
(*                                                                         *)
(* Each call of invoke builds its own initial dict and hands it to the     *)
(* compiled graph; the nodes read and write only the dict of their call.   *)
(* The router, the agents and the vector store are shared.                 *)
(***************************************************************************)
\* the variables of the one-call-at-a-time view
single == <<pc, state, branch, nodes, calls, result, returned, error, mode, yielded>>

\* answers of the collaborators used in the overlapping calls
ConcEntities == {<<>>, <<"Paris">>}
ConcRouteOutcomes(impl) ==
    {t \in Route(impl) :
        ("extracted_entity" \in DOMAIN t.raw) => t.raw.extracted_entity \in ConcEntities}
ConcHttpReplies == {reply \in HttpReplies : reply.status = 404 \/ reply.body = "weather_json"}
ConcWeatherLlmOutcomes == {Ok(<<"It", "is", "sunny", "in", "Paris">>), LlmFailure}
ConcRagLlmOutcomes == {Ok(<<"The", "document", "says", "X">>), LlmFailure}

\* invoke, called while other calls may be in progress
ConcInvoke(r, query) ==
    /\ runs[r].pc \in {"Idle", "Done", "Raised"}
    /\ runs' = [runs EXCEPT ![r] = [IdleRun EXCEPT !.pc = "Start",
                                                   !.state = InitialState(query)]]
    /\ UNCHANGED <<router, index, single, storeCalls, removed, upload>>

\* the router node of call r
ConcRouterNode(r) ==
    /\ runs[r].pc = "Start"
    /\ \E t \in ConcRouteOutcomes(router) :
        LET run == runs[r]
            logged == Append(run.calls, RouteCall(run.state.query, t))
        IN  runs' = [runs EXCEPT ![r] =
                IF t.res.raised
                THEN [run EXCEPT !.pc = "Raised", !.error = t.res.exc, !.calls = logged]
                ELSE [run EXCEPT !.pc = "Classified", !.calls = logged,
                                 !.state = Merge(run.state, RouterUpdate(t.res.val))]]
    /\ UNCHANGED <<router, index, single, storeCalls, removed, upload>>

\* the weather_agent node of call r
ConcWeatherNode(r) ==
    /\ runs[r].pc = "Classified"
    /\ EdgeTarget(RouteQuery(runs[r].state)) = "weather_agent"
    /\ \E reply \in ConcHttpReplies, llm \in ConcWeatherLlmOutcomes :
        LET run == runs[r]
            p == WeatherProcess(run.state.query,
                                Get(run.state, "extracted_entity", <<>>), reply, llm)
        IN  runs' = [runs EXCEPT ![r] =
                IF p.raised
                THEN [run EXCEPT !.pc = "Raised", !.error = p.exc,
                                 !.calls = run.calls \o p.calls]
                ELSE [run EXCEPT !.pc = "Handled", !.result = p.ret,
                                 !.calls = run.calls \o p.calls,
                                 !.state = Merge(run.state, WeatherUpdate(p.ret))]]
    /\ UNCHANGED <<router, index, single, storeCalls, removed, upload>>

\* the rag_agent node of call r
ConcRagNode(r) ==
    /\ runs[r].pc = "Classified"
    /\ EdgeTarget(RouteQuery(runs[r].state)) = "rag_agent"
    /\ \E search \in RetrieveContext(index, runs[r].state.query, DefaultK),
          llm \in ConcRagLlmOutcomes :
        \E p \in RagProcess(runs[r].state.query, search, llm) :
            LET run == runs[r]
            IN  runs' = [runs EXCEPT ![r] =
                    IF p.raised
                    THEN [run EXCEPT !.pc = "Raised", !.error = p.exc,
                                     !.calls = run.calls \o p.calls]
                    ELSE [run EXCEPT !.pc = "Handled", !.result = p.ret,
                                     !.calls = run.calls \o p.calls,
                                     !.state = Merge(run.state, RagUpdate(p.ret))]]
    /\ UNCHANGED <<router, index, single, storeCalls, removed, upload>>

\* the unknown_handler node of call r
ConcUnknownNode(r) ==
    /\ runs[r].pc = "Classified"
    /\ EdgeTarget(RouteQuery(runs[r].state)) = "unknown_handler"
    /\ runs' = [runs EXCEPT ![r] =
            [runs[r] EXCEPT !.pc = "Handled",
                            !.state = Merge(runs[r].state, UnknownUpdate)]]
    /\ UNCHANGED <<router, index, single, storeCalls, removed, upload>>

\* call r returns its final state
ConcReturn(r) ==
    /\ runs[r].pc = "Handled"
    /\ runs' = [runs EXCEPT ![r] = [runs[r] EXCEPT !.pc = "Done",
                                                   !.returned = runs[r].state]]
    /\ UNCHANGED <<router, index, single, storeCalls, removed, upload>>

ConcNext ==
    \/ \E r \in RunIds, q \in Queries : ConcInvoke(r, q)
    \/ \E r \in RunIds : ConcRouterNode(r)
    \/ \E r \in RunIds : ConcWeatherNode(r)
    \/ \E r \in RunIds : ConcRagNode(r)
    \/ \E r \in RunIds : ConcUnknownNode(r)
    \/ \E r \in RunIds : ConcReturn(r)
    \/ IndexDocuments(ChunksOf("a.pdf"))

ConcSpec == Init /\ [][ConcNext]_vars

(***************************************************************************)
(* Overlapping calls on the vector store (src/services/vector_store.py)    *)
(*                                                                         *)
(* create_collection is a sequence of requests to Qdrant: list the         *)
(* collections, delete the collection (recreate only), create it.          *)
(* add_documents calls create_collection() and then upserts.  Each request *)
(* is one step; requests of different callers interleave.                  *)
(***************************************************************************)
\* the variables the vector store calls leave alone
notStore == <<router, single, runs, upload>>

CollectionExists == Raise("CollectionExists", <<"collection", "already", "exists">>)
CollectionNotFound == Raise("CollectionNotFound", <<"collection", "not", "found">>)

StoreStep(c, call) == storeCalls' = [storeCalls EXCEPT ![c] = call]

\* a caller enters add_documents(documents)
StartAddDocuments(c, documents) ==
    /\ storeCalls[c].pc \in {"Idle", "Done", "Raised"}
    /\ StoreStep(c, [IdleStoreCall EXCEPT !.op = "add_documents", !.pc = "list",
                                          !.documents = documents])
    /\ UNCHANGED <<index, removed, notStore>>

\* a caller enters create_collection(recreate)
StartCreateCollection(c, recreate) ==
    /\ storeCalls[c].pc \in {"Idle", "Done", "Raised"}
    /\ StoreStep(c, [IdleStoreCall EXCEPT !.op = "create_collection", !.pc = "list",
                                          !.recreate = recreate])
    /\ UNCHANGED <<index, removed, notStore>>

\* where create_collection goes after it returned
AfterCreate(call) == IF call.op = "add_documents" THEN "upsert" ELSE "Done"

\* get_collections and the test of the name against the list
ListCollections(c) ==
    /\ storeCalls[c].pc = "list"
    /\ StoreStep(c, [storeCalls[c] EXCEPT !.pc =
            IF index.exists
            THEN IF storeCalls[c].recreate THEN "delete" ELSE AfterCreate(storeCalls[c])
            ELSE "create"])
    /\ UNCHANGED <<index, removed, notStore>>

\* self._client.delete_collection inside create_collection(recreate=True)
DeleteForRecreate(c) ==
    /\ storeCalls[c].pc = "delete"
    /\ index' = [exists |-> FALSE, points |-> {}]
    /\ removed' = TRUE
    /\ StoreStep(c, [storeCalls[c] EXCEPT !.pc = "create"])
    /\ UNCHANGED notStore

\* self._client.create_collection: Qdrant refuses to create a collection
\* that exists
ClientCreateCollection(c) ==
    /\ storeCalls[c].pc = "create"
    /\ IF index.exists
       THEN /\ StoreStep(c, [storeCalls[c] EXCEPT !.pc = "Raised",
                                                  !.error = CollectionExists.exc])
            /\ index' = index
       ELSE /\ StoreStep(c, [storeCalls[c] EXCEPT !.pc = AfterCreate(storeCalls[c])])
            /\ index' = [exists |-> TRUE, points |-> {}]
    /\ UNCHANGED <<removed, notStore>>

\* vector_store.add_documents: the upsert into the collection
Upsert(c) ==
    /\ storeCalls[c].pc = "upsert"
    /\ IF index.exists
       THEN /\ StoreStep(c, [storeCalls[c] EXCEPT !.pc = "Done"])
            /\ index' = [index EXCEPT !.points = @ \cup storeCalls[c].documents]
       ELSE /\ StoreStep(c, [storeCalls[c] EXCEPT !.pc = "Raised",
                                                  !.error = CollectionNotFound.exc])
            /\ index' = index
    /\ UNCHANGED <<removed, notStore>>

\* a caller enters delete_collection
StartDeleteCollection(c) ==
    /\ storeCalls[c].pc \in {"Idle", "Done", "Raised"}
    /\ StoreStep(c, [IdleStoreCall EXCEPT !.op = "delete_collection", !.pc = "drop"])
    /\ UNCHANGED <<index, removed, notStore>>

\* self._client.delete_collection inside delete_collection
ClientDeleteCollection(c) ==
    /\ storeCalls[c].pc = "drop"
    /\ index' = [exists |-> FALSE, points |-> {}]
    /\ removed' = TRUE
    /\ StoreStep(c, [storeCalls[c] EXCEPT !.pc = "Done"])
    /\ UNCHANGED notStore

StoreNext ==
    \/ \E c \in StoreCallerIds, documents \in DocumentBatches : StartAddDocuments(c, documents)
    \/ \E c \in StoreCallerIds, recreate \in BOOLEAN : StartCreateCollection(c, recreate)
    \/ \E c \in StoreCallerIds : ListCollections(c)
    \/ \E c \in StoreCallerIds : DeleteForRecreate(c)
    \/ \E c \in StoreCallerIds : ClientCreateCollection(c)
    \/ \E c \in StoreCallerIds : Upsert(c)
    \/ \E c \in StoreCallerIds : StartDeleteCollection(c)
    \/ \E c \in StoreCallerIds : ClientDeleteCollection(c)

StoreSpec == Init /\ [][StoreNext]_vars

(***************************************************************************)
(* Uploads: RAGAgent.load_pdf and load_pdf_from_bytes                      *)
(***************************************************************************)
\* number of calls of load_pdf_from_bytes that are followed
MaxUploads == 3

\* what can happen inside load_pdf_from_bytes: reading the upload or
\* writing it to the temporary file fails, loading or splitting the PDF
\* fails, or everything works
UploadOutcomes == {"ok", "write_fails", "load_fails"}

\* Path(pdf_path).name of the temporary files, in the order of their creation
TmpNames == <<"tmp1.pdf", "tmp2.pdf", "tmp3.pdf">>

TmpName(tmp_path) == TmpNames[tmp_path]

\* RAGAgent.load_pdf: the chunks of the file at pdf_path, each tagged with
\* the name of that path
LoadPdf(pdf_path, content, outcome) ==
    IF outcome = "load_fails"
    THEN Raise("PdfReadError", <<"invalid", "pdf">>)
    ELSE Ok({[passage |-> i, source_file |-> pdf_path] : i \in ChunksOf(content)})

\* RAGAgent.load_pdf_from_bytes: the temporary file is created with
\* delete=False and written inside the with block; load_pdf and the
\* retagging of the chunks run in try/finally, whose finally unlinks the file
LoadPdfFromBytes(filename, outcome) ==
    /\ upload.created < MaxUploads
    /\ LET tmp_path == upload.created + 1
           written == upload.disk \cup {tmp_path}
       IN  upload' =
             IF outcome = "write_fails"
             THEN [disk |-> written, created |-> tmp_path,
                   last |-> [filename |-> filename, tmp_path |-> tmp_path,
                             raised |-> TRUE,
                             exc |-> Raise("OSError", <<"write", "failed">>).exc,
                             chunks |-> {}]]
             ELSE LET loaded == LoadPdf(TmpName(tmp_path), filename, outcome)
                  IN  [disk |-> written \ {tmp_path}, created |-> tmp_path,
                       last |-> [filename |-> filename, tmp_path |-> tmp_path,
                                 raised |-> loaded.raised, exc |-> loaded.exc,
                                 chunks |-> IF loaded.raised THEN {}
                                            ELSE {[chunk EXCEPT !.source_file = filename] :
                                                    chunk \in loaded.val}]]
    /\ UNCHANGED <<router, index, single, runs, storeCalls, removed>>

\* a caller's direct call of load_pdf on a file of its own
CallLoadPdf(filename, outcome) ==
    /\ upload.created < MaxUploads
    /\ LET loaded == LoadPdf(filename, filename, outcome)
       IN  upload' = [upload EXCEPT !.created = @ + 1,
                        !.last = [filename |-> filename, tmp_path |-> 0,
                                  raised |-> loaded.raised, exc |-> loaded.exc,
                                  chunks |-> IF loaded.raised THEN {} ELSE loaded.val]]
    /\ UNCHANGED <<router, index, single, runs, storeCalls, removed>>

UploadNext ==
    \/ \E filename \in Files, outcome \in UploadOutcomes : LoadPdfFromBytes(filename, outcome)
    \/ \E filename \in Files, outcome \in UploadOutcomes \ {"write_fails"} :
          CallLoadPdf(filename, outcome)

UploadSpec == Init /\ [][UploadNext]_vars

(***************************************************************************)
(* Vocabulary of the properties                                            *)
(***************************************************************************)
\* the current call went through classification and a handler finished
Handled == pc \in {"Handled", "Done"}

\* the calls of the current run to one collaborator operation, in order
CallsTo(op) == SelectSeq(calls, LAMBDA c : c.op = op)

\* calls made by a handler (every call but the classifier's)
HandlerCalls == SelectSeq(calls, LAMBDA c : c.op # "route")

WeatherRun == pc \in {"Classified", "Handled", "Done", "Raised"} /\ state.query_type = "weather"
DocumentRun == pc \in {"Classified", "Handled", "Done", "Raised"} /\ state.query_type = "pdf"
OtherRun ==
    pc \in {"Classified", "Handled", "Done", "Raised"} /\ state.query_type \notin {"weather", "pdf"}

\* the city the Weather handler works with
City == Strip(state.extracted_entity)

IsGenericApology(text) ==
    /\ Len(text) >= 11
    /\ SubSeq(text, 1, 11) = <<"Sorry", ",", "I", "encountered", "an", "error",
                               "while", "fetching", "weather", "data", ":">>

NoDuplicates(l) == \A i, j \in 1..Len(l) : l[i] = l[j] => i = j

\* the current run called the classifier
Routed == calls # <<>> /\ calls[1].op = "route"

\* the raw output of the model behind the classifier's answer
RawOutput == calls[1].raw

\* the current run went through classification without raising
AfterClassification == pc \in {"Classified", "Handled", "Done"}

(***************************************************************************)
(* C1: routing is total.  Whenever _route_query has been applied to a      *)
(* state whose query_type is neither "weather" nor "pdf" (any other tag,   *)
(* the empty string, or no query_type key at all) it answered "unknown";   *)
(* a run classified with such a value can only continue with the Fallback  *)
(* handler, ends with success = false, agent_used = "unknown" and the      *)
(* fixed help text, makes no collaborator call besides the classifier's,   *)
(* and never ends in an error.                                             *)
(***************************************************************************)
C1_RoutingIsTotal ==
    /\ (branch # NoBranch /\ Get(state, "query_type", "unknown") \notin {"weather", "pdf"})
          => branch = "unknown"
    /\ (OtherRun /\ pc = "Classified")
          => (ENABLED UnknownNode) /\ ~(ENABLED WeatherNode) /\ ~(ENABLED RagNode)
    /\ (OtherRun /\ Handled)
          => /\ nodes = <<"router", "unknown_handler">>
             /\ state.success = FALSE
             /\ state.agent_used = "unknown"
             /\ state.response = HelpText
             /\ HandlerCalls = <<>>
    /\ (OtherRun /\ pc = "Done") => returned = state
    /\ ~(OtherRun /\ pc = "Raised" /\ state.query_type # "")

\* a run classified with an unexpected tag has returned from the Fallback handler
C1_Witness ==
    /\ pc = "Done"
    /\ state.query_type = "something_else"
    /\ returned.agent_used = "unknown"

(***************************************************************************)
(* C2: every run whose classification succeeds moves through Start,        *)
(* Classified, Handled, Done in that order: the stage only advances along  *)
(* that chain, the classifier is called exactly once, exactly the handler  *)
(* selected by the category runs, exactly once, the collaborators of the   *)
(* other handlers are never called, and a classified run leaves            *)
(* Classified only for Handled and Handled only for Done.                  *)
(***************************************************************************)
StageOrder ==
    { <<"Idle", "Start">>, <<"Done", "Start">>, <<"Raised", "Start">>,
      <<"Done", "Idle">>, <<"Raised", "Idle">>,
      <<"Start", "Classified">>, <<"Start", "Raised">>,
      <<"Classified", "Handled">>, <<"Handled", "Done">>,
      <<"Handled", "Exhausted">>, <<"Exhausted", "Start">>, <<"Exhausted", "Idle">> }

OneHandlerOnce ==
    /\ (pc \in {"Classified", "Handled", "Done"})
          => /\ Len(CallsTo("route")) = 1
             /\ nodes[1] = "router"
    /\ pc = "Classified" => nodes = <<"router">>
    /\ Handled => nodes = <<"router", EdgeTarget(RouteQuery(state))>>
    /\ (WeatherRun /\ Handled)
          => /\ nodes[2] = "weather_agent"
             /\ \A i \in 1..Len(calls) :
                    calls[i].op \in {"route", "get_current_weather", "weather_llm"}
    /\ (DocumentRun /\ Handled)
          => /\ nodes[2] = "rag_agent"
             /\ \A i \in 1..Len(calls) :
                    calls[i].op \in {"route", "similarity_search", "rag_llm"}
    /\ (OtherRun /\ Handled) => nodes[2] = "unknown_handler"

C2_StagesInOrder ==
    /\ [][pc' # pc => <<pc, pc'>> \in StageOrder]_vars
    /\ []OneHandlerOnce

(***************************************************************************)
(* C3: every run that returns hands the caller a fully populated           *)
(* PipelineState: the eight fields are present, response and success are   *)
(* the values the handler that ran produced, and agent_used names that     *)
(* handler and is not the empty initial value.                             *)
(***************************************************************************)
C3_FullyPopulated ==
    pc = "Done" =>
        /\ DOMAIN returned = PipelineFields
        /\ returned.success \in BOOLEAN
        /\ returned.agent_used # ""
        /\ Len(nodes) = 2
        /\ nodes[2] = "weather_agent"
              => /\ returned.agent_used = "weather"
                 /\ returned.response = result.response
                 /\ returned.success = result.success
        /\ nodes[2] = "rag_agent"
              => /\ returned.agent_used = "rag"
                 /\ returned.response = result.response
                 /\ returned.success = result.success
        /\ nodes[2] = "unknown_handler"
              => /\ returned.agent_used = "unknown"
                 /\ returned.response = HelpText
                 /\ returned.success = FALSE

\* a document run has returned a successful answer
C3_Witness ==
    /\ pc = "Done"
    /\ nodes = <<"router", "rag_agent">>
    /\ returned.success = TRUE
    /\ returned.response \in RagAnswers

(***************************************************************************)
(* C4: a weather run whose extracted entity is empty after trimming        *)
(* whitespace ends with success = false and the fixed response asking for  *)
(* a city, and its handler made no call at all: no weather lookup and no   *)
(* inference call.                                                         *)
(***************************************************************************)
C4_EmptyEntityNoCall ==
    (WeatherRun /\ Handled /\ City = <<>>)
        => /\ state.success = FALSE
           /\ state.response = NeedCityMessage
           /\ HandlerCalls = <<>>

\* a weather run with a whitespace-only entity has returned
C4_Witness ==
    /\ pc = "Done"
    /\ state.query_type = "weather"
    /\ state.extracted_entity = <<" ">>
    /\ returned.response = NeedCityMessage

(***************************************************************************)
(* C5: a weather run with a non-empty entity whose lookup returned a       *)
(* snapshot and whose inference call returned a text ends with             *)
(* success = true, sources empty and agent_used = "weather", whatever the  *)
(* text is.                                                                *)
(***************************************************************************)
C5_KnownCitySucceeds ==
    (/\ WeatherRun /\ Handled /\ City # <<>>
     /\ Len(CallsTo("get_current_weather")) = 1
     /\ CallsTo("get_current_weather")[1].out = "ok"
     /\ Len(CallsTo("weather_llm")) = 1
     /\ CallsTo("weather_llm")[1].out = "ok")
        => /\ state.success = TRUE
           /\ state.sources = <<>>
           /\ state.agent_used = "weather"

(***************************************************************************)
(* C6: a weather run with a non-empty entity for which the weather source  *)
(* answers not-found (status 404) raises nothing to the caller and ends    *)
(* with the response explaining that the city was not found and            *)
(* success = false.                                                        *)
(***************************************************************************)
C6_NotFoundExplained ==
    (/\ WeatherRun /\ City # <<>>
     /\ CallsTo("get_current_weather") # <<>>
     /\ CallsTo("get_current_weather")[1].out = "ValueError")
        => /\ Handled
           /\ error = NoExc
           /\ state.response =
                 NotFoundMessage(City, [type |-> "ValueError",
                                        msg |-> <<"City", "'">> \o City
                                                \o <<"'", "not", "found">>])
           /\ state.success = FALSE
           /\ pc = "Done" => returned = state

\* a weather run for an unknown city has returned
C6_Witness ==
    /\ pc = "Done"
    /\ state.query_type = "weather"
    /\ CallsTo("get_current_weather") # <<>>
    /\ CallsTo("get_current_weather")[1].out = "ValueError"
    /\ returned.success = FALSE

(***************************************************************************)
(* C7: a weather run with a non-empty entity whose lookup fails with any   *)
(* error other than not-found (the weather source did not answer 404) ends *)
(* without raising, with the generic apologetic response, after exactly    *)
(* one lookup attempt.                                                     *)
(***************************************************************************)
C7_OtherFailureGeneric ==
    (/\ WeatherRun /\ City # <<>>
     /\ CallsTo("get_current_weather") # <<>>
     /\ CallsTo("get_current_weather")[1].out \notin {"ok", "ValueError"})
        => /\ Handled
           /\ error = NoExc
           /\ IsGenericApology(state.response)
           /\ Len(CallsTo("get_current_weather")) = 1

(***************************************************************************)
(* C8: a document run whose retrieval returns zero passages ends with      *)
(* success = false, sources empty and the fixed message asking to upload   *)
(* a PDF first, and its handler makes no inference call.                   *)
(***************************************************************************)
C8_EmptyIndexMessage ==
    (/\ DocumentRun
     /\ CallsTo("similarity_search") # <<>>
     /\ CallsTo("similarity_search")[1].out = "ok"
     /\ CallsTo("similarity_search")[1].val = <<>>)
        => /\ Handled
           /\ state.success = FALSE
           /\ state.sources = <<>>
           /\ state.response = NoDocumentsMessage
           /\ CallsTo("rag_llm") = <<>>
           /\ pc = "Done" => returned = state

\* a document run on an existing, empty collection has returned
C8_Witness ==
    /\ pc = "Done"
    /\ state.query_type = "pdf"
    /\ CallsTo("similarity_search") # <<>>
    /\ CallsTo("similarity_search")[1].out = "ok"
    /\ CallsTo("similarity_search")[1].val = <<>>
    /\ returned.response = NoDocumentsMessage

(***************************************************************************)
(* C9: in a document run that retrieved at least one passage and returned, *)
(* sources has no duplicates, its elements are exactly the source file     *)
(* names of the retrieved passages ("Unknown" for a passage without one),  *)
(* and success = true.                                                     *)
(***************************************************************************)
C9_SourcesDeduplicated ==
    (/\ DocumentRun /\ Handled
     /\ CallsTo("similarity_search")[1].val # <<>>)
        => LET documents == CallsTo("similarity_search")[1].val
           IN  /\ NoDuplicates(state.sources)
               /\ Range(state.sources) =
                     {Get(Metadata(documents[i]), "source_file", "Unknown") :
                        i \in 1..Len(documents)}
               /\ state.success = TRUE
               /\ pc = "Done" => returned.sources = state.sources

\* a returned document run retrieved two chunks of one file and a passage
\* without a source file name
C9_Witness ==
    /\ pc = "Done"
    /\ state.query_type = "pdf"
    /\ LET documents == CallsTo("similarity_search")[1].val
       IN  /\ \E i, j \in 1..Len(documents) :
                 /\ i # j
                 /\ "source_file" \in DOMAIN Metadata(documents[i])
                 /\ "source_file" \in DOMAIN Metadata(documents[j])
                 /\ Metadata(documents[i]).source_file = Metadata(documents[j]).source_file
           /\ \E i \in 1..Len(documents) : "source_file" \notin DOMAIN Metadata(documents[i])
    /\ Len(returned.sources) = 2

(***************************************************************************)
(* C10: in a document run whose retrieval call raises, the failure is      *)
(* caught by the handler: the run ends with a PipelineState whose success  *)
(* is false and no exception reaches the caller of invoke.                 *)
(***************************************************************************)
C10_RetrievalFailureCaught ==
    (/\ DocumentRun
     /\ CallsTo("similarity_search") # <<>>
     /\ CallsTo("similarity_search")[1].out # "ok")
        => /\ Handled
           /\ error = NoExc
           /\ state.success = FALSE
           /\ state.response # <<>>

(***************************************************************************)
(* C11: when the classifier's inference call fails, the error leaves       *)
(* route and invoke uncaught: the run ends raised with that error after    *)
(* the router node alone, the record still holds the defaults of           *)
(* InitialState (no fall back to "unknown"), no handler can run or has     *)
(* made a call, and invoke returned no PipelineState.                      *)
(***************************************************************************)
C11_InferenceFailurePropagates ==
    (Routed /\ RawOutput = NoOutput /\ pc # "Idle")
        => /\ pc = "Raised"
           /\ calls[1].out = "GoogleAPIError"
           /\ error.type = "GoogleAPIError"
           /\ nodes = <<"router">>
           /\ state = InitialState(state.query)
           /\ branch = NoBranch
           /\ HandlerCalls = <<>>
           /\ returned = NoReturn
           /\ ~(ENABLED WeatherNode) /\ ~(ENABLED RagNode) /\ ~(ENABLED UnknownNode)
           /\ ~(ENABLED Return)

\* a run whose inference call failed has ended with the error
C11_Witness ==
    /\ pc = "Raised"
    /\ Routed
    /\ RawOutput = NoOutput
    /\ error.type = "GoogleAPIError"

(***************************************************************************)
(* C12: after classification the stored query_type is one of "weather",    *)
(* "pdf", "unknown"; a tag of the model outside these three is stored as   *)
(* "unknown" and does not make the run fail.                               *)
(***************************************************************************)
C12_UnrecognizedTagCoerced ==
    /\ AfterClassification => state.query_type \in QueryTypeLiteral
    /\ (/\ Routed /\ pc # "Idle"
        /\ "query_type" \in DOMAIN RawOutput
        /\ RawOutput.query_type \notin QueryTypeLiteral)
          => /\ pc # "Raised"
             /\ state.query_type = "unknown"

(***************************************************************************)
(* C20: when the model's output carries a recognized tag and no entity,    *)
(* the decision's extracted_entity is the empty string, the record holds   *)
(* extracted_entity = "" after classification, and a weather run on it     *)
(* takes the empty-entity path: fixed response asking for a city,          *)
(* success = false, no call by the handler.                                *)
(***************************************************************************)
C20_AbsentEntityIsEmpty ==
    (/\ Routed /\ AfterClassification
     /\ "query_type" \in DOMAIN RawOutput
     /\ "extracted_entity" \notin DOMAIN RawOutput)
        => /\ "extracted_entity" \in DOMAIN calls[1].val
           /\ calls[1].val.extracted_entity = <<>>
           /\ "extracted_entity" \in DOMAIN state
           /\ state.extracted_entity = <<>>
           /\ (state.query_type = "weather" /\ Handled)
                 => /\ state.response = NeedCityMessage
                    /\ state.success = FALSE
                    /\ HandlerCalls = <<>>

\* a weather run classified from an output without entity has returned the
\* request for a city
C20_Witness ==
    /\ pc = "Done"
    /\ Routed
    /\ "query_type" \in DOMAIN RawOutput
    /\ "extracted_entity" \notin DOMAIN RawOutput
    /\ state.query_type = "weather"
    /\ returned.response = NeedCityMessage

(***************************************************************************)
(* C13: the stages only add.  The router node leaves response, sources,    *)
(* success and agent_used at the defaults of the initial record; the       *)
(* handler node leaves query, query_type, extracted_entity and             *)
(* routing_reasoning as they were after classification and removes no      *)
(* field; from classification on, query is the query given to invoke and   *)
(* the three classification fields are what the classifier returned, and   *)
(* the record invoke returns is that record.                               *)
(***************************************************************************)
ClassificationFields == {"query_type", "extracted_entity", "routing_reasoning"}
HandlerFields == {"response", "sources", "success", "agent_used"}

ClassifierKept ==
    (Routed /\ AfterClassification)
        => /\ DOMAIN state = PipelineFields
           /\ state.query = calls[1].arg
           /\ state.query_type = calls[1].val.query_type
           /\ state.extracted_entity = calls[1].val.extracted_entity
           /\ state.routing_reasoning = calls[1].val.reasoning
           /\ (pc = "Classified")
                 => \A f \in HandlerFields : state[f] = InitialState(state.query)[f]
           /\ (pc = "Done") => returned = state

HandlerAddsOnly ==
    (pc = "Classified" /\ pc' = "Handled")
        => /\ DOMAIN state \subseteq DOMAIN state'
           /\ \A f \in ClassificationFields \cup {"query"} : state'[f] = state[f]

QueryKept ==
    (pc \in {"Start", "Classified", "Handled"}) => state'.query = state.query

C13_AdditiveOnly ==
    /\ []ClassifierKept
    /\ [][HandlerAddsOnly /\ QueryKept]_vars

\* a weather run with a non-empty entity has returned a record that holds
\* both the classifier's fields and the handler's
C13_Witness ==
    /\ pc = "Done"
    /\ Routed
    /\ returned.query = calls[1].arg
    /\ returned.query_type = "weather"
    /\ returned.extracted_entity = <<"Paris">>
    /\ returned.routing_reasoning = <<"because">>
    /\ returned.agent_used = "weather"
    /\ returned.response # <<>>

(***************************************************************************)
(* C15: a run routed to the Weather handler never ends in an error, and    *)
(* once its handler has run the record has sources empty and               *)
(* agent_used = "weather", on each path of the handler: empty entity,      *)
(* city not found, another failure of the lookup or of the inference       *)
(* call, and success.                                                      *)
(***************************************************************************)
WeatherPath ==
    IF City = <<>> THEN "empty_entity"
    ELSE IF CallsTo("get_current_weather")[1].out = "ValueError" THEN "not_found"
    ELSE IF \E i \in 1..Len(HandlerCalls) : HandlerCalls[i].out # "ok" THEN "other_failure"
    ELSE "success"

C15_WeatherRunTagged ==
    WeatherRun
        => /\ pc # "Raised"
           /\ Handled
                 => /\ state.sources = <<>>
                    /\ state.agent_used = "weather"
                    /\ WeatherPath \in {"empty_entity", "not_found", "other_failure", "success"}
                    /\ (pc = "Done")
                          => returned.sources = <<>> /\ returned.agent_used = "weather"

\* a weather run whose lookup failed with something else than not-found
\* has returned
C15_Witness ==
    /\ pc = "Done"
    /\ state.query_type = "weather"
    /\ WeatherPath = "other_failure"
    /\ returned.agent_used = "weather"
    /\ returned.sources = <<>>

(***************************************************************************)
(* C16: once the handler of a run routed to the Document handler has run,  *)
(* agent_used is "rag" (the tag the code and its test use for the          *)
(* document handler) and sources are the sources RAGAgent.process          *)
(* reported: the names of the retrieved passages' files when passages      *)
(* were retrieved, the empty list when none were.                          *)
(***************************************************************************)
Retrieved == CallsTo("similarity_search")[1].val

C16_DocumentRunTagged ==
    (DocumentRun /\ Handled)
        => /\ state.agent_used = "rag"
           /\ "sources" \in DOMAIN result
           /\ state.sources = result.sources
           /\ (Retrieved = <<>>) => state.sources = <<>>
           /\ (Retrieved # <<>>)
                 => /\ state.sources # <<>>
                    /\ Range(state.sources) = Range(SourceNames(Retrieved))
           /\ (pc = "Done")
                 => returned.agent_used = "rag" /\ returned.sources = result.sources

\* a document run that retrieved passages has returned their file names
C16_Witness ==
    /\ pc = "Done"
    /\ state.query_type = "pdf"
    /\ Retrieved # <<>>
    /\ returned.agent_used = "rag"
    /\ returned.sources = result.sources
    /\ returned.sources # <<>>

(***************************************************************************)
(* C17: the Fallback handler is constant.  Whatever the query and the      *)
(* record it receives, its update is the fixed help text (which mentions   *)
(* "Weather queries" and "Document questions"), success = false, sources   *)
(* empty and agent_used = "unknown"; it is enabled whenever the run was    *)
(* routed to it, never ends the run in an error and makes no call.         *)
(***************************************************************************)
FallbackRun == pc \in {"Classified", "Handled", "Done", "Raised"} /\ branch = "unknown"

C17_FallbackIsConstant ==
    /\ Contains(HelpText, <<"Weather", "queries">>)
    /\ Contains(HelpText, <<"Document", "questions">>)
    /\ FallbackRun
          => /\ pc # "Raised"
             /\ (pc = "Classified") => ENABLED UnknownNode
             /\ Handled
                   => /\ state.response = HelpText
                      /\ state.success = FALSE
                      /\ state.sources = <<>>
                      /\ state.agent_used = "unknown"
                      /\ result = NoResult
                      /\ HandlerCalls = <<>>

\* a fallback run with an unrecognized tag and a non-empty entity has
\* returned the help text
C17_Witness ==
    /\ pc = "Done"
    /\ branch = "unknown"
    /\ state.query_type = "something_else"
    /\ state.extracted_entity # <<>>
    /\ returned.response = HelpText
    /\ returned.success = FALSE

(***************************************************************************)
(* C19: every call of get_current_weather, by the Weather handler or by    *)
(* another caller, that the weather API answers with status 404 raises     *)
(* ValueError with a message naming the city; a call answered with any     *)
(* other failing status, or not answered at all, raises an error that is   *)
(* not a ValueError, so `except ValueError` tells not-found from these.    *)
(***************************************************************************)
C19_NotFoundDistinguishable ==
    \A i \in 1..Len(calls) :
        (calls[i].op = "get_current_weather")
            => LET c == calls[i]
                   reply == c.reply
               IN  /\ (reply.sent /\ reply.status = 404)
                         => /\ c.out = "ValueError"
                            /\ Contains(c.msg, <<"'">> \o c.arg \o <<"'">>)
                            /\ Contains(c.msg, <<"not", "found">>)
                   /\ (reply.sent /\ reply.status \notin {200, 404})
                         => /\ c.out # "ok"
                            /\ ~IsValueError(c.out)
                   /\ (~reply.sent)
                         => /\ c.out # "ok"
                            /\ ~IsValueError(c.out)
                   /\ (pc = "Idle") => error.type = IF c.out = "ok" THEN "none" ELSE c.out

\* a direct call for a city was answered with status 404 and raised
\* ValueError to its caller
C19_Witness ==
    /\ pc = "Idle"
    /\ Len(calls) = 1
    /\ calls[1].op = "get_current_weather"
    /\ calls[1].arg = <<"Paris">>
    /\ calls[1].reply.status = 404
    /\ error.type = "ValueError"

(***************************************************************************)
(* Streaming                                                               *)
(***************************************************************************)
\* the content a consumer accumulates from the snapshots of a stream
RECURSIVE Accumulated(_)
Accumulated(ys) ==
    IF ys = <<>> THEN <<>>
    ELSE Merge(Accumulated(SubSeq(ys, 1, Len(ys) - 1)), ys[Len(ys)].update)

\* the record invoke returns for a query, given the classifier's decision
\* and the dict the selected agent's process() returned
RecordFor(query, decision, res) ==
    LET classified == Merge(InitialState(query), RouterUpdate(decision))
        handler == EdgeTarget(RouteQuery(classified))
    IN  Merge(classified,
              CASE handler = "weather_agent" -> WeatherUpdate(res)
                [] handler = "rag_agent" -> RagUpdate(res)
                [] handler = "unknown_handler" -> UnknownUpdate)

\* the record invoke returns for the query, the classifier's answer and the
\* handler's answer of the current run
InvokeRecord == RecordFor(calls[1].arg, calls[1].val, result)

\* stream yields one snapshot per node that ran to its end, the router's
\* first, and invoke yields none
SnapshotPerStage ==
    /\ (mode = "invoke" /\ pc \in {"Start", "Classified", "Handled", "Done", "Raised"})
          => yielded = <<>>
    /\ (mode = "invoke" /\ pc = "Done") => returned = InvokeRecord
    /\ (mode = "stream" /\ pc = "Start") => yielded = <<>>
    /\ (mode = "stream" /\ pc = "Classified")
          => Len(yielded) = 1 /\ yielded[1].node = "router"
    /\ (mode = "stream" /\ pc \in {"Handled", "Exhausted"})
          => /\ Len(yielded) = 2
             /\ yielded[1].node = "router"
             /\ yielded[2].node = nodes[2]
             /\ yielded[2].node \in {"weather_agent", "rag_agent", "unknown_handler"}
             /\ state = InvokeRecord
             /\ returned = NoReturn

(***************************************************************************)
(* C18: stream is equivalent to invoke.  For the same query and the same   *)
(* answers of the classifier and the collaborators, stream yields the      *)
(* router's snapshot before the handler's, one snapshot per stage, and     *)
(* the content accumulated from the snapshots is the record invoke         *)
(* returns.                                                                *)
(***************************************************************************)
C18_StreamEqualsInvoke ==
    /\ SnapshotPerStage
    /\ (mode = "stream" /\ pc = "Exhausted") => Accumulated(yielded) = InvokeRecord

(***************************************************************************)
(* C18, amended: stream yields the router's snapshot before the handler's, *)
(* one snapshot per stage; each snapshot is the update of its node, so the *)
(* content accumulated from the snapshots holds every field of the record  *)
(* invoke returns except query, with the same values, and merged into the  *)
(* initial record it is the record invoke returns.                         *)
(***************************************************************************)
C18_StreamEqualsInvokeButQuery ==
    /\ SnapshotPerStage
    /\ (mode = "stream" /\ pc = "Exhausted")
          => /\ DOMAIN Accumulated(yielded) = PipelineFields \ {"query"}
             /\ \A f \in DOMAIN Accumulated(yielded) :
                    Accumulated(yielded)[f] = InvokeRecord[f]
             /\ Merge(InitialState(calls[1].arg), Accumulated(yielded)) = InvokeRecord

\* a streamed weather run has yielded the router's snapshot and then the
\* handler's, and is exhausted
C18_Witness ==
    /\ mode = "stream"
    /\ pc = "Exhausted"
    /\ Len(yielded) = 2
    /\ yielded[1].node = "router"
    /\ yielded[1].update.query_type = "weather"
    /\ yielded[2].node = "weather_agent"
    /\ yielded[2].update.success = TRUE

(***************************************************************************)
(* C14: calls of invoke on one pipeline are independent, in sequence and   *)
(* overlapping.  Every call starts from a record holding its query and the *)
(* empty/false default in every other field; after classification and at   *)
(* its end its record is the one determined by its own query, the          *)
(* classifier's answer to it and its handler's answer (the record it       *)
(* produces alone with these answers); and a step of one call changes      *)
(* nothing of any other call.                                              *)
(***************************************************************************)
FieldDefault(f) ==
    IF f = "success" THEN FALSE
    ELSE IF f \in {"query_type", "agent_used"} THEN ""
    ELSE <<>>

StartsFresh(r) ==
    (runs[r].pc = "Start")
        => /\ DOMAIN runs[r].state = PipelineFields
           /\ runs[r].state.query \in Queries
           /\ \A f \in PipelineFields \ {"query"} : runs[r].state[f] = FieldDefault(f)
           /\ runs[r].calls = <<>>

EndsAsAlone(r) ==
    LET run == runs[r]
    IN  /\ (run.pc \in {"Classified", "Handled", "Done"})
              => /\ run.calls[1].op = "route"
                 /\ run.calls[1].arg = run.state.query
                 /\ \A f \in ClassificationFields :
                        run.state[f] = RouterUpdate(run.calls[1].val)[f]
        /\ (run.pc = "Classified")
              => \A f \in HandlerFields : run.state[f] = FieldDefault(f)
        /\ (run.pc \in {"Handled", "Done"})
              => run.state = RecordFor(run.calls[1].arg, run.calls[1].val, run.result)
        /\ (run.pc = "Done") => run.returned = run.state
        /\ (run.pc # "Done") => run.returned = NoReturn

OneRunPerStep ==
    \A r \in RunIds :
        (runs'[r] # runs[r]) => \A o \in RunIds \ {r} : runs'[o] = runs[o]

C14_RunsIndependent ==
    /\ [](\A r \in RunIds : StartsFresh(r) /\ EndsAsAlone(r))
    /\ [][OneRunPerStep]_vars

\* two calls overlap: the first is classified as a weather query for Paris
\* and waits for its handler, the second, about another query, has its
\* document answer with sources and has not returned yet
C14_Witness ==
    /\ runs[1].pc = "Classified"
    /\ runs[1].state.query_type = "weather"
    /\ runs[1].state.extracted_entity = <<"Paris">>
    /\ runs[2].pc = "Handled"
    /\ runs[2].state.query # runs[1].state.query
    /\ runs[2].state.agent_used = "rag"
    /\ runs[2].state.sources # <<>>

(***************************************************************************)
(* C21: format_weather_report is a pure function.  Every call returns the  *)
(* text determined by its argument alone: two calls with the same          *)
(* WeatherData return the same report whatever was formatted or indexed    *)
(* in between, and the report contains the city, the temperature, the      *)
(* humidity followed by "%" and the description in title case.             *)
(***************************************************************************)
FormatCalls == CallsTo("format_weather_report")

C22_LookupBeforeInference ==
    (WeatherRun /\ Handled /\ City # <<>>)
        => /\ Len(CallsTo("get_current_weather")) = 1
           /\ HandlerCalls # <<>>
           /\ HandlerCalls[1].op = "get_current_weather"
           /\ HandlerCalls[1].arg = Strip(calls[1].val.extracted_entity)
           /\ (HandlerCalls[1].out = "ok")
                 => /\ Len(HandlerCalls) = 2
                    /\ HandlerCalls[2].op = "weather_llm"
                    /\ HandlerCalls[2].arg =
                          [weather_data |-> FormatWeatherReport(HandlerCalls[1].val),
                           question |-> calls[1].arg]
           /\ (HandlerCalls[1].out # "ok") => Len(HandlerCalls) = 1

\* a weather run whose entity had surrounding blanks looked up the trimmed
\* city, got a snapshot and then asked the model
C22_Witness ==
    /\ pc = "Done"
    /\ state.query_type = "weather"
    /\ state.extracted_entity = <<" ", "Paris">>
    /\ Len(HandlerCalls) = 2
    /\ HandlerCalls[1].op = "get_current_weather"
    /\ HandlerCalls[1].arg = <<"Paris">>
    /\ HandlerCalls[1].out = "ok"
    /\ HandlerCalls[2].op = "weather_llm"

(***************************************************************************)
(* C23: in a document run whose handler has run, to its end or to an       *)
(* exception, the handler's first call is the one retrieval of the run,    *)
(* made with the run's query and k = 4; it is followed by exactly one      *)
(* inference call if the retrieval returned at least one passage and by    *)
(* no call at all if it returned none (or failed).                         *)
(***************************************************************************)
DocumentHandlerRan == DocumentRun /\ Len(nodes) = 2 /\ nodes[2] = "rag_agent"

C23_OneRetrievalThenInference ==
    DocumentHandlerRan
        => /\ Len(CallsTo("similarity_search")) = 1
           /\ HandlerCalls[1].op = "similarity_search"
           /\ HandlerCalls[1].arg = [query |-> calls[1].arg, k |-> 4]
           /\ (HandlerCalls[1].out = "ok" /\ HandlerCalls[1].val # <<>>)
                 => /\ Len(HandlerCalls) = 2
                    /\ HandlerCalls[2].op = "rag_llm"
                    /\ HandlerCalls[2].arg.question = calls[1].arg
                    /\ HandlerCalls[2].arg.context = FormatContext(HandlerCalls[1].val)
           /\ (HandlerCalls[1].out # "ok" \/ HandlerCalls[1].val = <<>>)
                 => Len(HandlerCalls) = 1

\* a document run on an existing but empty collection made its retrieval
\* and no inference call
C23_WitnessEmpty ==
    /\ pc = "Done"
    /\ state.query_type = "pdf"
    /\ Len(HandlerCalls) = 1
    /\ HandlerCalls[1].op = "similarity_search"
    /\ HandlerCalls[1].out = "ok"
    /\ HandlerCalls[1].val = <<>>

(***************************************************************************)
(* Frame of a run on the document index                                    *)
(***************************************************************************)
\* a step of a call of invoke or stream: it starts, a node runs, it ends
RunStep == pc' # pc /\ pc' # "Idle"

\* a step in which the document handler retrieved
RetrievalStep == pc = "Classified" /\ branch = "pdf" /\ pc' # pc

\* the handler retrieved from the index as it is: the passages it got are
\* min(k, size) passages of the current index
RetrievedFromCurrentIndex ==
    LET search == CallsTo("similarity_search")'[1]
    IN  (search.out = "ok")
            => /\ index.exists
               /\ Range(search.val) \subseteq index.points
               /\ Len(search.val) = Min(DefaultK, Cardinality(index.points))
               /\ NoDuplicates(search.val)

(***************************************************************************)
(* C24: a run never changes the document index, and the set of indexed     *)
(* passages changes only by passages being added through index_documents:  *)
(* every step that changes the passages is not a step of a run and only    *)
(* adds passages, so document runs with no indexing in between retrieve    *)
(* from the same contents.                                                 *)
(***************************************************************************)
C24_IndexChangesOnlyByIndexing ==
    /\ [][RunStep => index' = index]_vars
    /\ [][RetrievalStep => RetrievedFromCurrentIndex]_vars
    /\ [][(index'.points # index.points)
             => /\ index'.exists
                /\ index.points \subseteq index'.points]_vars

(***************************************************************************)
(* C24, amended: a run never changes the document index (neither the set   *)
(* of indexed passages nor the existence of the collection), whatever the  *)
(* category and the outcome, and the document handler retrieves from the   *)
(* index as it is at that moment; passages are added only outside a run,   *)
(* and they can also be removed outside a run, by                          *)
(* create_collection(recreate=True) and delete_collection, so two document *)
(* runs retrieve from the same contents when no index operation at all     *)
(* (not only no indexing) happened in between.                             *)
(***************************************************************************)
C24_RunLeavesIndexAlone ==
    /\ [][RunStep => index' = index]_vars
    /\ [][RetrievalStep => RetrievedFromCurrentIndex]_vars
    /\ [][(index' # index) => UNCHANGED <<pc, state, calls, nodes, result, returned>>]_vars

\* a document run has returned passages of an index of more passages than
\* it retrieves, and the index still holds all of them
C24_Witness ==
    /\ pc = "Done"
    /\ state.query_type = "pdf"
    /\ Cardinality(index.points) > DefaultK
    /\ Len(CallsTo("similarity_search")[1].val) = DefaultK
    /\ Range(CallsTo("similarity_search")[1].val) \subseteq index.points

(***************************************************************************)
(* C25: whenever the Weather handler caught an exception (a call of the    *)
(* handler did not return normally) the run ends with success = false,     *)
(* because the response built from either template contains "couldn't      *)
(* find" or "error", the phrases the success heuristic looks for.          *)
(***************************************************************************)
HandlerCaught == \E i \in 1..Len(HandlerCalls) : HandlerCalls[i].out # "ok"

C25_CaughtFailureNeverSuccess ==
    (WeatherRun /\ Handled /\ HandlerCaught)
        => /\ state.success = FALSE
           /\ \/ Contains(Lower(state.response), <<"couldn't", "find">>)
              \/ Contains(Lower(state.response), <<"error">>)
           /\ \E i \in 1..Len(HandlerCalls) :
                 /\ HandlerCalls[i].out # "ok"
                 /\ state.response \in
                       {NotFoundMessage(City, [type |-> HandlerCalls[i].out, msg |-> m]) :
                           m \in {IF "msg" \in DOMAIN HandlerCalls[i]
                                  THEN HandlerCalls[i].msg ELSE LlmFailure.exc.msg}}
                       \cup {ErrorMessage([type |-> HandlerCalls[i].out, msg |-> m]) :
                           m \in {IF "msg" \in DOMAIN HandlerCalls[i]
                                  THEN HandlerCalls[i].msg ELSE LlmFailure.exc.msg}}

\* a weather run whose lookup could not connect has returned the general
\* apology with success = false
C25_Witness ==
    /\ pc = "Done"
    /\ state.query_type = "weather"
    /\ Len(HandlerCalls) = 1
    /\ HandlerCalls[1].out = "ConnectError"
    /\ returned.success = FALSE
    /\ IsGenericApology(returned.response)

(***************************************************************************)
(* C26: the Weather handler's response "I couldn't find weather data for   *)
(* <city>" is returned only in runs whose weather lookup was answered with *)
(* status 404; a failure of response decoding, report formatting or the    *)
(* inference call never produces it.                                       *)
(***************************************************************************)
IsNotFoundResponse(text) ==
    Contains(text, <<"I", "couldn't", "find", "weather", "data", "for", "'">> \o City \o <<"'">>)

C26_NotFoundOnlyFor404 ==
    (WeatherRun /\ Handled /\ City # <<>> /\ IsNotFoundResponse(state.response))
        => /\ Len(HandlerCalls) = 1
           /\ HandlerCalls[1].op = "get_current_weather"
           /\ HandlerCalls[1].reply.sent
           /\ HandlerCalls[1].reply.status = 404

(***************************************************************************)
(* C27: the Weather handler never raises.  A run routed to it reaches      *)
(* Handled from Classified for every entity and every outcome of the       *)
(* lookup and of the inference call; in particular when the inference      *)
(* call fails after a successful lookup the failure is caught: the run     *)
(* raises nothing and ends with the apology carrying the failure's message *)
(* and success = false.                                                    *)
(***************************************************************************)
InferenceFailedAfterLookup ==
    /\ Len(HandlerCalls) = 2
    /\ HandlerCalls[1].op = "get_current_weather"
    /\ HandlerCalls[1].out = "ok"
    /\ HandlerCalls[2].op = "weather_llm"
    /\ HandlerCalls[2].out # "ok"

C27_InferenceFailureCaught ==
    WeatherRun
        => /\ pc # "Raised"
           /\ error = NoExc
           /\ InferenceFailedAfterLookup
                 => /\ Handled
                    /\ state.response = ErrorMessage(LlmFailure.exc)
                    /\ IsGenericApology(state.response)
                    /\ state.success = FALSE
                    /\ (pc = "Done") => returned = state

\* a weather run whose lookup succeeded and whose inference call failed has
\* returned the apology
C27_Witness ==
    /\ pc = "Done"
    /\ state.query_type = "weather"
    /\ InferenceFailedAfterLookup
    /\ returned.success = FALSE
    /\ IsGenericApology(returned.response)

(***************************************************************************)
(* Vector store calls                                                      *)
(***************************************************************************)
\* after a finished create_collection or add_documents the collection
\* exists, as long as nobody deleted it
ExistsAfterCreate ==
    \A c \in StoreCallerIds :
        (/\ storeCalls[c].pc = "Done"
         /\ storeCalls[c].op \in {"create_collection", "add_documents"}
         /\ ~removed)
            => index.exists

\* a step that loses an indexed passage or the collection is a deleting
\* request: delete_collection, or the delete of create_collection(recreate=True)
OnlyDeletesRemove ==
    (~(index.points \subseteq index'.points) \/ (index.exists /\ ~index'.exists))
        => \E c \in StoreCallerIds :
              /\ storeCalls'[c].pc # storeCalls[c].pc
              /\ \/ storeCalls[c].pc = "delete" /\ storeCalls[c].recreate
                 \/ storeCalls[c].pc = "drop" /\ storeCalls[c].op = "delete_collection"

\* create_collection() finding the collection returns without a request
\* that changes it
ExistingLeftAlone ==
    \A c \in StoreCallerIds :
        (storeCalls[c].pc = "list" /\ storeCalls'[c].pc # "list"
         /\ index.exists /\ ~storeCalls[c].recreate)
            => /\ index' = index
               /\ storeCalls'[c].pc = AfterCreate(storeCalls[c])

\* no call of create_collection or add_documents fails while nobody has
\* deleted the collection
NoCallFails ==
    \A c \in StoreCallerIds : (storeCalls[c].pc = "Raised") => removed

(***************************************************************************)
(* C28: create_collection without recreate is idempotent and never         *)
(* destructive.  After create_collection() and add_documents calls the     *)
(* collection exists; a call that finds the collection leaves it and its   *)
(* passages unchanged; passages are removed only by                        *)
(* create_collection(recreate=True) and delete_collection; and no call     *)
(* fails, also when two add_documents calls interleave on a collection     *)
(* that does not exist yet.                                                *)
(***************************************************************************)
C28_CreateIdempotentUnderInterleaving ==
    /\ []ExistsAfterCreate
    /\ [][OnlyDeletesRemove /\ ExistingLeftAlone]_vars
    /\ []NoCallFails

(***************************************************************************)
(* C29: load_pdf_from_bytes leaves no temporary file behind.  When a call  *)
(* has ended, by returning the chunks or by raising because writing the    *)
(* upload or loading the PDF failed, the temporary file it created is no   *)
(* longer on disk; and the chunks it returns carry source_file equal to    *)
(* the caller's filename, not the temporary file's name.                   *)
(***************************************************************************)
C29_NoTempFileLeft ==
    /\ upload.disk = {}
    /\ (upload.last.tmp_path # 0 /\ ~upload.last.raised)
          => /\ upload.last.chunks # {}
             /\ \A chunk \in upload.last.chunks :
                   /\ chunk.source_file = upload.last.filename
                   /\ chunk.source_file # TmpName(upload.last.tmp_path)

\* the parts of C29 that hold: a call that got past the write leaves no
\* file of its own, and returned chunks carry the caller's filename
C29_UnlinkedAfterWrite ==
    /\ (upload.last.tmp_path # 0 /\ upload.last.exc.type # "OSError")
          => upload.last.tmp_path \notin upload.disk
    /\ (upload.last.tmp_path # 0 /\ ~upload.last.raised)
          => \A chunk \in upload.last.chunks : chunk.source_file = upload.last.filename

\* a call whose write failed has ended and its temporary file is on disk
C29_Leak ==
    /\ upload.last.raised
    /\ upload.last.exc.type = "OSError"
    /\ upload.last.tmp_path \in upload.disk

====
